---- MODULE Spec2Model ----
(***************************************************************************)
(* Model of the MySQL -> PostgreSQL table migration pipeline.              *)
(*                                                                         *)
(*   Spec       the scheduler, multi_threaded_migration: the preparation  *)
(*              phase on the shared connection pair, the migration phase  *)
(*              with one connection pair per task, the sequential retry   *)
(*              phase and the summary.                                     *)
(*   SpecMerge  the batch engine, merge_and_update_data, applied to one   *)
(*              table row by row, batch by batch.                          *)
(***************************************************************************)
EXTENDS Integers, Sequences, FiniteSets, TLC

VARIABLES
    \* ---- scheduler (multi_threading.py) ----
    pc,             \* position of the main thread
    uniq,           \* uniq[t]: table_options[t]['unique_cols'] is non-empty
    tgt,            \* tgt[t]: committed catalog entry of target table t
    pend,           \* tables created in the open transaction of the shared pg_conn
    pgAbortedBy,    \* table whose statement aborted the shared transaction, or "none"
    mysqlCur,       \* task with an unread result on the shared mysql_conn, or "none"
    prep,           \* prep[t]: position of the preparation task of t
    prepErr,        \* prepErr[t]: why the preparation task of t raised
    prepSeen,       \* futures already taken from as_completed in create_pg_tables
    failed_tables,  \* the shared failure list
    mig,            \* mig[t]: position of migrate_single_table(t)
    migErr,         \* migErr[t]: what merge_and_update_data raised in the task of t
    batchRan,       \* batchRan[t]: an INSERT batch was executed for t
    retryList,      \* failed_tables[:] taken by retry_failed_tables
    retryIdx,       \* index of the entry being retried
    attempt,        \* attempt counter of retry_migration_operation
    retried,        \* number of re-attempted merges per table
    summary,        \* table names listed by the bodies send_migration_summary built
    email_notify,   \* email_notify argument
    recipient_email, \* recipient_email argument ("" when not given)
    sent,           \* bodies handed to send_email_notification
    max_workers,    \* max_workers argument: size of both thread pools
    \* ---- batch engine (migration_operations.py) ----
    mpc,            \* position inside merge_and_update_data
    rows,           \* rows fetched from the source table
    batch_size,     \* batch_size argument
    unique_cols,    \* unique_cols argument is non-empty (conflict target: column k)
    schema,         \* catalog entry of the target table
    committed,      \* committed rows of the target table
    txn,            \* rows written by the open transaction of pg_conn
    i,              \* loop variable: start index of the current batch
    batches,        \* batches committed by the current application
    run,            \* number of the current application of merge (1 or 2)
    result,         \* result[r]: how application r ended
    snap,           \* snap[1]: target rows before the first application;
                    \* snap[r + 1]: target rows when application r ended
    pg_log,         \* operations of the current application on pg_conn, in order
    \* ---- connection context managers (database_connections.py) ----
    cm_pc,          \* position: "loop", "body", "returned" (control is back at the caller)
    cm_engine,      \* "mysql" for connect_mysql, "pg" for connect_postgresql
    conn_retries,   \* retries argument
    conn_attempt,   \* local variable attempt
    connection,     \* handle bound to the local variable connection
    open_conns,     \* connections opened and not yet closed
    connect_calls,  \* calls of the driver's connect()
    yields,         \* times the generator has yielded
    cm_outcome,     \* what the with statement gave its caller
    \* ---- retry_migration_operation (error_handling.py) ----
    op_pc,          \* position: "loop", "returned", "raised"
    op_retries,     \* retries argument
    op_attempt,     \* loop variable attempt
    op_target,      \* catalog entry of the target table
    op_log,         \* merges and sleeps in the order they happened
    op_error,       \* exception that left retry_migration_operation
    \* ---- type mapping ----
    mysql_type,     \* column type as reported by the source
    pg_type,        \* result of map_mysql_type_to_postgresql
    helper_type,    \* result of map_mysql_to_postgres_type
    \* ---- target catalog (check_table_exists / create_postgresql_table) ----
    pg_catalog,     \* (schema, table) names in information_schema.tables
    last_create,    \* <<arguments and outcome of the last create_postgresql_table>>
    last_check,     \* <<arguments and result of the last check_table_exists>>
    \* ---- exponential_backoff (error_handling.py, utils/helpers.py) ----
    bo_impl,        \* module of the function called
    bo_attempt,     \* attempt argument
    bo_jitter,      \* jitter argument
    bo_delay,       \* value returned, in hundredths of a second (-1: not called yet)
    bo_slept,       \* time slept inside the function, in hundredths of a second
    \* ---- error resolution (error_handling.py) and target readiness ----
    target,         \* the target table: exists, columns, unique constraint
    source_type,    \* type of column region in the source table (NoType: no such column)
    configured,     \* unique columns configured for the table
    options_shape,  \* what table_options is: the dict of the run or the table's entry
    adv_txn,        \* transaction of pg_conn: "idle" or "aborted"
    last_call,      \* the last call, its arguments and its outcome
    prev_call,      \* the call before it
    \* ---- prompt with timeout (user_interaction.py) ----
    pr_pc,          \* main thread: "call", "input" (inside input()), "body", "returned"
    pr_timeout,     \* timeout argument, in seconds
    pr_clock,       \* seconds since timer.start()
    pr_timer,       \* timer thread: "none", "running", "cancelled", "raised"
    pr_response,    \* value yielded to the with-body
    pr_prompts,     \* prompts shown so far
    pr_answer       \* what ask_default_db returned

schedVars == <<pc, uniq, tgt, pend, pgAbortedBy, mysqlCur, prep, prepErr, prepSeen,
               failed_tables, mig, migErr, batchRan, retryList, retryIdx, attempt,
               retried, summary, email_notify, recipient_email, sent, max_workers>>
notifyArgs == <<email_notify, recipient_email>>
mergeVars == <<mpc, rows, batch_size, unique_cols, schema, committed, txn, i,
               batches, run, result, snap, pg_log>>
connVars == <<cm_pc, cm_engine, conn_retries, conn_attempt, connection, open_conns,
              connect_calls, yields, cm_outcome>>
opVars == <<op_pc, op_retries, op_attempt, op_target, op_log, op_error>>
typeVars == <<mysql_type, pg_type, helper_type>>
catalogVars == <<pg_catalog, last_create, last_check>>
backoffVars == <<bo_impl, bo_attempt, bo_jitter, bo_delay, bo_slept>>
advisorVars == <<target, source_type, configured, options_shape, adv_txn, last_call,
                 prev_call>>
promptVars == <<pr_pc, pr_timeout, pr_clock, pr_timer, pr_response, pr_prompts,
                pr_answer>>
auxVars == <<connVars, opVars, typeVars, catalogVars, backoffVars, advisorVars,
             promptVars>>
vars == <<schedVars, mergeVars, backoffVars, advisorVars, auxVars>>

\* The parts of the program a specification does not exercise stay idle.
ConnIdle ==
    /\ cm_pc = "idle" /\ cm_engine = "none" /\ conn_retries = 0 /\ conn_attempt = 0
    /\ connection = "None" /\ open_conns = 0 /\ connect_calls = 0 /\ yields = 0
    /\ cm_outcome = "none"

OpIdle ==
    /\ op_pc = "idle" /\ op_retries = 0 /\ op_attempt = 0 /\ op_target = "none"
    /\ op_log = <<>> /\ op_error = "none"

TypesIdle == mysql_type = "none" /\ pg_type = "none" /\ helper_type = "none"

CatalogIdle == pg_catalog = {} /\ last_create = <<>> /\ last_check = <<>>

BackoffIdle ==
    /\ bo_impl = "none" /\ bo_attempt = 0 /\ bo_jitter = FALSE /\ bo_delay = -1
    /\ bo_slept = 0

AdvisorIdle ==
    /\ target = "none" /\ source_type = "none" /\ configured = <<>>
    /\ options_shape = "none" /\ adv_txn = "idle" /\ last_call = "none"
    /\ prev_call = "none"

PromptIdle ==
    /\ pr_pc = "idle" /\ pr_timeout = 0 /\ pr_clock = 0 /\ pr_timer = "none"
    /\ pr_response = "unset" /\ pr_prompts = 0 /\ pr_answer = "unset"

----------------------------------------------------------------------------
\* Bounds of the model

\* The tables handed to multi_threaded_migration.
Tables == {"t1", "t2"}

\* max_workers of the run (the pool size, 10 by default).
MaxWorkers == 2

----------------------------------------------------------------------------
\* Target catalog

Missing == [exists |-> FALSE, insert_date |-> FALSE, unique |-> FALSE]

\* Catalog entries a target table can have before the run.
Schemas == {Missing} \cup
           { [exists |-> TRUE, insert_date |-> d, unique |-> u] : d, u \in BOOLEAN }

\* CREATE TABLE IF NOT EXISTS with the columns of the source only: no
\* insert_date column, no key, no unique constraint.
create_postgresql_table(s) ==
    IF s.exists THEN s
    ELSE [exists |-> TRUE, insert_date |-> FALSE, unique |-> FALSE]

\* SELECT EXISTS(... information_schema.tables ...)
check_table_exists(s) == s.exists

----------------------------------------------------------------------------
\* Values and helpers

\* retries of multi_threaded_migration and of retry_migration_operation.
Retries == 3

\* What a caller binds to the parameters mysql_conn / pg_conn.
Connection == [kind |-> "conn"]
TableName  == [kind |-> "str"]
ConfigDict == [kind |-> "dict"]

\* list.remove(x): removes the first occurrence of x.
RECURSIVE Remove(_, _)
Remove(s, x) ==
    IF s = <<>> THEN <<>>
    ELSE IF Head(s) = x THEN Tail(s)
    ELSE <<Head(s)>> \o Remove(Tail(s), x)

Count(s, x) == Cardinality({j \in 1..Len(s) : s[j] = x})
InList(s, x) == \E j \in 1..Len(s) : s[j] = x

\* The multi-row INSERT of one batch is accepted by the target catalog: the
\* table exists, it has the insert_date column the statement names, and with
\* unique_cols an ON CONFLICT target needs a matching unique constraint.
StatementValid(s, u) == s.exists /\ s.insert_date /\ (u => s.unique)

\* Outcomes of one call of merge_and_update_data, as the scheduler sees it:
\*   "attr"   mysql_conn has no cursor() (and pg_conn no rollback()): AttributeError
\*   "mysql"  the SELECT on the source raised a mysql.connector.Error
\*   "empty"  no rows: returns without touching the target
\*   "pg"     a batch raised a psycopg2.Error (rolled back, re-raised)
\*   "ok"     every batch committed
merge_outcomes(mysql_conn, pg_conn, s, u) ==
    IF mysql_conn.kind # "conn" THEN {"attr"}
    ELSE {"mysql", "empty", "pg"} \cup (IF StatementValid(s, u) THEN {"ok"} ELSE {})

MergeRaised(o) == o \in {"attr", "mysql", "pg"}

----------------------------------------------------------------------------
\* Preparation phase: create_pg_tables on the shared connection pair

\* Mutant: the pool starts a thread for every task submitted.
pool_unbounded(active) == TRUE

\* ThreadPoolExecutor(max_workers=max_workers): a queued task is taken when
\* fewer than max_workers tasks of the pool are running.
pool_has_worker(active) == Cardinality(active) < max_workers

PrepActive == {t \in Tables : prep[t] \in {"check", "show", "fetch", "create", "commit"}}
\* Mutant: a task that has been started counts as completed.
PrepDoneStarted(t) == prep[t] # "queued"

PrepDone(t) == prep[t] \in {"returned", "raised"}

\* What a statement on the shared pg_conn sees of table t.
Visible(t) == IF t \in pend THEN create_postgresql_table(tgt[t]) ELSE tgt[t]

\* with connect_mysql(...) as mysql_conn, connect_postgresql(...) as pg_conn:
\* a context manager that never yields raises RuntimeError out of the run.
connect_shared ==
    /\ pc = "connect1"
    /\ \E ok \in BOOLEAN : pc' = IF ok THEN "prep" ELSE "aborted"
    /\ UNCHANGED <<uniq, tgt, pend, pgAbortedBy, mysqlCur, prep, prepErr, prepSeen,
                   failed_tables, mig, migErr, batchRan, retryList, retryIdx,
                   attempt, retried, summary, sent, notifyArgs, max_workers,
                   mergeVars, auxVars>>

\* A pool worker takes the task ensure_table_exists(pg_conn, t, mysql_conn, t).
prep_start(t) ==
    /\ pc = "prep" /\ prep[t] = "queued"
    /\ pool_has_worker(PrepActive)
    /\ prep' = [prep EXCEPT ![t] = "check"]
    /\ UNCHANGED <<pc, uniq, tgt, pend, pgAbortedBy, mysqlCur, prepErr, prepSeen,
                   failed_tables, mig, migErr, batchRan, retryList, retryIdx,
                   attempt, retried, summary, sent, notifyArgs, max_workers,
                   mergeVars, auxVars>>

\* check_table_exists(pg_conn, pg_table): a statement in an aborted transaction
\* raises InFailedSqlTransaction.
ensure_check(t) ==
    /\ prep[t] = "check"
    /\ IF pgAbortedBy # "none"
       THEN /\ prep' = [prep EXCEPT ![t] = "raised"]
            /\ prepErr' = [prepErr EXCEPT ![t] = "other"]
       ELSE /\ prep' = [prep EXCEPT ![t] =
                          IF check_table_exists(Visible(t)) THEN "returned" ELSE "show"]
            /\ UNCHANGED prepErr
    /\ UNCHANGED <<pc, uniq, tgt, pend, pgAbortedBy, mysqlCur, prepSeen,
                   failed_tables, mig, migErr, batchRan, retryList, retryIdx,
                   attempt, retried, summary, sent, notifyArgs, max_workers,
                   mergeVars, auxVars>>

\* mysql_cur.execute("SHOW COLUMNS FROM t") on the shared mysql_conn. The
\* connection is not safe for concurrent use: with another task's result
\* still unread the call may raise or go through.
ensure_show(t) ==
    /\ prep[t] = "show"
    /\ \E o \in {"ok", "own"} \cup (IF mysqlCur \notin {"none", t} THEN {"race"} ELSE {}) :
         IF o = "ok"
         THEN /\ prep' = [prep EXCEPT ![t] = "fetch"]
              /\ mysqlCur' = t
              /\ UNCHANGED prepErr
         ELSE /\ prep' = [prep EXCEPT ![t] = "raised"]
              /\ prepErr' = [prepErr EXCEPT ![t] = o]
              /\ UNCHANGED mysqlCur
    /\ UNCHANGED <<pc, uniq, tgt, pend, pgAbortedBy, prepSeen,
                   failed_tables, mig, migErr, batchRan, retryList, retryIdx,
                   attempt, retried, summary, sent, notifyArgs, max_workers,
                   mergeVars, auxVars>>

\* mysql_cur.fetchall(): when another task has executed on the connection in
\* between, the result read is not this task's own.
ensure_fetch(t) ==
    /\ prep[t] = "fetch"
    /\ \E o \in {"ok"} \cup (IF mysqlCur # t THEN {"race"} ELSE {}) :
         IF o = "ok"
         THEN /\ prep' = [prep EXCEPT ![t] = "create"]
              /\ UNCHANGED prepErr
         ELSE /\ prep' = [prep EXCEPT ![t] = "raised"]
              /\ prepErr' = [prepErr EXCEPT ![t] = "race"]
    /\ mysqlCur' = IF mysqlCur = t THEN "none" ELSE mysqlCur
    /\ UNCHANGED <<pc, uniq, tgt, pend, pgAbortedBy, prepSeen,
                   failed_tables, mig, migErr, batchRan, retryList, retryIdx,
                   attempt, retried, summary, sent, notifyArgs, max_workers,
                   mergeVars, auxVars>>

\* create_postgresql_table: cur.execute(create_table_sql). A rejected
\* statement aborts the transaction of the shared pg_conn; nothing rolls back.
ensure_create(t) ==
    /\ prep[t] = "create"
    /\ IF pgAbortedBy # "none"
       THEN /\ prep' = [prep EXCEPT ![t] = "raised"]
            /\ prepErr' = [prepErr EXCEPT ![t] = "other"]
            /\ UNCHANGED <<pend, pgAbortedBy>>
       ELSE \E ok \in BOOLEAN :
              IF ok
              THEN /\ prep' = [prep EXCEPT ![t] = "commit"]
                   /\ pend' = pend \cup {t}
                   /\ UNCHANGED <<prepErr, pgAbortedBy>>
              ELSE /\ prep' = [prep EXCEPT ![t] = "raised"]
                   /\ prepErr' = [prepErr EXCEPT ![t] = "own"]
                   /\ pgAbortedBy' = t
                   /\ pend' = {}
    /\ UNCHANGED <<pc, uniq, tgt, mysqlCur, prepSeen,
                   failed_tables, mig, migErr, batchRan, retryList, retryIdx,
                   attempt, retried, summary, sent, notifyArgs, max_workers,
                   mergeVars, auxVars>>

\* create_postgresql_table: pg_conn.commit(). It ends the transaction of the
\* shared connection: every pending statement commits, or, the transaction
\* being aborted, the server rolls back and commit() returns normally.
ensure_commit(t) ==
    /\ prep[t] = "commit"
    /\ tgt' = IF pgAbortedBy = "none"
              THEN [u \in Tables |-> IF u \in pend THEN create_postgresql_table(tgt[u])
                                     ELSE tgt[u]]
              ELSE tgt
    /\ pend' = {}
    /\ pgAbortedBy' = "none"
    /\ prep' = [prep EXCEPT ![t] = "returned"]
    /\ UNCHANGED <<pc, uniq, mysqlCur, prepErr, prepSeen,
                   failed_tables, mig, migErr, batchRan, retryList, retryIdx,
                   attempt, retried, summary, sent, notifyArgs, max_workers,
                   mergeVars, auxVars>>

\* for future in as_completed(...): future.result(); a raised task is
\* appended to failed_tables by the main thread.
create_pg_tables(t) ==
    /\ pc = "prep" /\ PrepDone(t) /\ t \notin prepSeen
    /\ prepSeen' = prepSeen \cup {t}
    /\ failed_tables' = IF prep[t] = "raised" THEN Append(failed_tables, t)
                        ELSE failed_tables
    /\ UNCHANGED <<pc, uniq, tgt, pend, pgAbortedBy, mysqlCur, prep, prepErr,
                   mig, migErr, batchRan, retryList, retryIdx,
                   attempt, retried, summary, sent, notifyArgs, max_workers,
                   mergeVars, auxVars>>

\* End of the with-block: the shared connections are closed; every table of
\* `tables` is then submitted to the migration pool.
close_shared ==
    /\ pc = "prep" /\ prepSeen = Tables
    /\ pc' = "migrate"
    /\ pend' = {} /\ pgAbortedBy' = "none" /\ mysqlCur' = "none"
    /\ UNCHANGED <<uniq, tgt, prep, prepErr, prepSeen,
                   failed_tables, mig, migErr, batchRan, retryList, retryIdx,
                   attempt, retried, summary, sent, notifyArgs, max_workers,
                   mergeVars, auxVars>>

----------------------------------------------------------------------------
\* Migration phase: migrate_single_table, one connection pair per task

MigActive == {t \in Tables : mig[t] \in {"connect", "merge", "exit"}}
\* Mutant: a task that has been started counts as done.
MigDoneStarted(t) == mig[t] # "queued"

MigDone(t) == mig[t] \in {"true", "false"}

\* __exit__ of the @contextmanager of connect_mysql / connect_postgresql when
\* the body ended with err. An error of the manager's own driver is caught by
\* its except clause and the while loop connects again (re): a second yield
\* makes contextlib raise RuntimeError, a loop that runs out of attempts ends
\* the generator and the exception of the body is suppressed.
with_exit(err, re) ==
    IF err = "none" THEN "normal"
    ELSE IF err \in {"pg", "mysql"} /\ re = "exhausted" THEN "normal"
    ELSE "raise"

\* executor.submit(migrate_single_table, table) for table in tables: a pool
\* worker takes the task of t.
mig_start(t) ==
    /\ pc = "migrate" /\ mig[t] = "queued"
    /\ pool_has_worker(MigActive)
    /\ mig' = [mig EXCEPT ![t] = "connect"]
    /\ UNCHANGED <<pc, uniq, tgt, pend, pgAbortedBy, mysqlCur, prep, prepErr, prepSeen,
                   failed_tables, migErr, batchRan, retryList, retryIdx,
                   attempt, retried, summary, sent, notifyArgs, max_workers,
                   mergeVars, auxVars>>

\* with connect_mysql(mysql_config) as mysql_conn, connect_postgresql(...) as
\* pg_conn: a manager that gives up raises, the except clause of the task
\* appends the table and the task returns False.
migrate_connect(t) ==
    /\ mig[t] = "connect"
    /\ \E ok \in BOOLEAN :
         IF ok
         THEN /\ mig' = [mig EXCEPT ![t] = "merge"]
              /\ UNCHANGED <<migErr, failed_tables>>
         ELSE /\ mig' = [mig EXCEPT ![t] = "false"]
              /\ migErr' = [migErr EXCEPT ![t] = "conn"]
              /\ failed_tables' = Append(failed_tables, t)
    /\ UNCHANGED <<pc, uniq, tgt, pend, pgAbortedBy, mysqlCur, prep, prepErr, prepSeen,
                   batchRan, retryList, retryIdx,
                   attempt, retried, summary, sent, notifyArgs, max_workers,
                   mergeVars, auxVars>>

\* merge_and_update_data(mysql_conn, pg_conn, t, t, unique_cols=...) on the
\* connections of the task.
migrate_merge(t) ==
    /\ mig[t] = "merge"
    /\ \E o \in merge_outcomes(Connection, Connection, tgt[t], uniq[t]) :
         /\ migErr' = [migErr EXCEPT ![t] = IF MergeRaised(o) THEN o ELSE "none"]
         /\ batchRan' = [batchRan EXCEPT ![t] = o \in {"pg", "ok"}]
    /\ mig' = [mig EXCEPT ![t] = "exit"]
    /\ UNCHANGED <<pc, uniq, tgt, pend, pgAbortedBy, mysqlCur, prep, prepErr, prepSeen,
                   failed_tables, retryList, retryIdx,
                   attempt, retried, summary, sent, notifyArgs, max_workers,
                   mergeVars, auxVars>>

\* Leaving the with-block, then `return True`, or the except clause:
\* failed_tables.append(table_name); return False.
migrate_single_table(t) ==
    /\ mig[t] = "exit"
    /\ \E re \in {"yield", "exhausted"} :
         IF with_exit(migErr[t], re) = "normal"
         THEN /\ mig' = [mig EXCEPT ![t] = "true"]
              /\ UNCHANGED failed_tables
         ELSE /\ mig' = [mig EXCEPT ![t] = "false"]
              /\ failed_tables' = Append(failed_tables, t)
    /\ UNCHANGED <<pc, uniq, tgt, pend, pgAbortedBy, mysqlCur, prep, prepErr, prepSeen,
                   migErr, batchRan, retryList, retryIdx,
                   attempt, retried, summary, sent, notifyArgs, max_workers,
                   mergeVars, auxVars>>

----------------------------------------------------------------------------
\* Retry phase and summary

\* The pool has shut down: `if failed_tables: retry_failed_tables(...)`, which
\* iterates over the copy failed_tables[:].
retry_begin ==
    /\ pc = "migrate" /\ \A t \in Tables : MigDone(t)
    /\ IF failed_tables # <<>>
       THEN /\ pc' = "retry"
            /\ retryList' = failed_tables
            /\ retryIdx' = 1
       ELSE /\ pc' = "summary"
            /\ UNCHANGED <<retryList, retryIdx>>
    /\ attempt' = 0
    /\ UNCHANGED <<uniq, tgt, pend, pgAbortedBy, mysqlCur, prep, prepErr, prepSeen,
                   failed_tables, mig, migErr, batchRan, retried, summary, sent, notifyArgs, max_workers,
                   mergeVars, auxVars>>

\* Mutant: retry_failed_tables has no except clause, the first re-attempt
\* that raises ends the loop.
loop_ends_at_raise(idx, n) == n + 1

\* `except Exception as e: logging.warning(...)`: the error of a re-attempt is
\* logged and the loop goes on with the next entry of the copy.
loop_continues(idx, n) == idx + 1

\* One attempt of retry_migration_operation(table_name, mysql_config,
\* postgres_config, schema_name, retries): the parameters are (mysql_conn,
\* pg_conn, table_name, schema_name, retries), so mysql_conn is bound to the
\* table name and pg_conn to the MySQL configuration. A merge that returns
\* ends the loop and the entry is removed; a merge that raises is repeated
\* until the last attempt re-raises, which retry_failed_tables only logs.
retry_migration_operation ==
    /\ pc = "retry" /\ retryIdx <= Len(retryList) /\ attempt < Retries
    /\ LET t == retryList[retryIdx] IN
       /\ retried' = [retried EXCEPT ![t] = @ + 1]
       /\ \E o \in merge_outcomes(TableName, ConfigDict, tgt[t], FALSE) :
            IF ~MergeRaised(o)
            THEN /\ failed_tables' = Remove(failed_tables, t)
                 /\ retryIdx' = retryIdx + 1
                 /\ attempt' = 0
            ELSE IF attempt < Retries - 1
            THEN /\ attempt' = attempt + 1
                 /\ UNCHANGED <<failed_tables, retryIdx>>
            ELSE /\ retryIdx' = loop_continues(retryIdx, Len(retryList))
                 /\ attempt' = 0
                 /\ UNCHANGED failed_tables
    /\ UNCHANGED <<pc, uniq, tgt, pend, pgAbortedBy, mysqlCur, prep, prepErr, prepSeen,
                   mig, migErr, batchRan, retryList, summary, sent, notifyArgs, max_workers,
                   mergeVars, auxVars>>

\* retry_failed_tables returns when the copy is exhausted.
retry_failed_tables ==
    /\ pc = "retry" /\ retryIdx > Len(retryList)
    /\ pc' = "summary"
    /\ UNCHANGED <<uniq, tgt, pend, pgAbortedBy, mysqlCur, prep, prepErr, prepSeen,
                   failed_tables, mig, migErr, batchRan, retryList, retryIdx,
                   attempt, retried, summary, sent, notifyArgs, max_workers,
                   mergeVars, auxVars>>

\* Mutant: the body names only the first failed table.
summary_names_first(ft) == IF ft # <<>> THEN <<Head(ft)>> ELSE <<>>

\* Table names in the body: "Migration completed with errors. Failed
\* tables:" followed by the entries of failed_tables, or, for an empty list,
\* "Migration completed successfully for all tables.", which names none.
summary_names(ft) == IF ft # <<>> THEN ft ELSE <<>>

\* Mutant: the notifier is called whatever the arguments are.
notify_always(e, r) == TRUE

\* `if email_notify and recipient_email`
notify_enabled(e, r) == e /\ r # ""

\* send_migration_summary(failed_tables, email_notify, recipient_email)
send_migration_summary ==
    /\ pc = "summary"
    /\ summary' = Append(summary, summary_names(failed_tables))
    /\ sent' = IF notify_enabled(email_notify, recipient_email)
               THEN Append(sent, summary_names(failed_tables))
               ELSE sent
    /\ pc' = "done"
    /\ UNCHANGED <<uniq, tgt, pend, pgAbortedBy, mysqlCur, prep, prepErr, prepSeen,
                   failed_tables, mig, migErr, batchRan, retryList, retryIdx,
                   attempt, retried, notifyArgs, max_workers, mergeVars, auxVars>>

----------------------------------------------------------------------------
\* The scheduler

\* recipient_email: not given, or an address.
Recipients == {"", "ops@example.org"}

MergeIdle ==
    /\ mpc = "idle" /\ rows = <<>> /\ batch_size = 1 /\ unique_cols = FALSE
    /\ schema = Missing /\ committed = <<>> /\ txn = <<>> /\ i = 0
    /\ batches = <<>> /\ run = 0 /\ result = <<>> /\ snap = <<>>
    /\ pg_log = <<>>

\* A run before its first step, the arguments left open.
SchedStart ==
    /\ pc = "connect1"
    /\ pend = {} /\ pgAbortedBy = "none" /\ mysqlCur = "none"
    /\ prep = [t \in Tables |-> "queued"]
    /\ prepErr = [t \in Tables |-> "none"]
    /\ prepSeen = {}
    /\ failed_tables = <<>>
    /\ mig = [t \in Tables |-> "queued"]
    /\ migErr = [t \in Tables |-> "none"]
    /\ batchRan = [t \in Tables |-> FALSE]
    /\ retryList = <<>> /\ retryIdx = 0 /\ attempt = 0
    /\ retried = [t \in Tables |-> 0]
    /\ summary = <<>>
    /\ sent = <<>>
    /\ MergeIdle
    /\ ConnIdle /\ OpIdle /\ TypesIdle /\ CatalogIdle
    /\ BackoffIdle /\ AdvisorIdle /\ PromptIdle

Init ==
    /\ SchedStart
    /\ uniq \in [Tables -> BOOLEAN]
    /\ tgt \in [Tables -> Schemas]
    /\ email_notify \in BOOLEAN
    /\ recipient_email \in Recipients
    /\ max_workers = MaxWorkers

Next ==
    \/ connect_shared
    \/ \E t \in Tables : prep_start(t)
    \/ \E t \in Tables : ensure_check(t)
    \/ \E t \in Tables : ensure_show(t)
    \/ \E t \in Tables : ensure_fetch(t)
    \/ \E t \in Tables : ensure_create(t)
    \/ \E t \in Tables : ensure_commit(t)
    \/ \E t \in Tables : create_pg_tables(t)
    \/ close_shared
    \/ \E t \in Tables : mig_start(t)
    \/ \E t \in Tables : migrate_connect(t)
    \/ \E t \in Tables : migrate_merge(t)
    \/ \E t \in Tables : migrate_single_table(t)
    \/ retry_begin
    \/ retry_migration_operation
    \/ retry_failed_tables
    \/ send_migration_summary

Spec == Init /\ [][Next]_vars

\* Runs with every pool size up to MaxWorkers, notification off.
InitPool ==
    /\ SchedStart
    /\ uniq \in [Tables -> BOOLEAN]
    /\ tgt \in [Tables -> Schemas]
    /\ email_notify = FALSE /\ recipient_email = ""
    /\ max_workers \in 1..MaxWorkers

SpecPool == InitPool /\ [][Next]_vars

\* Runs without unique columns: every pool thread that can take a step
\* eventually takes one, and so does the main thread.
InitFair ==
    /\ SchedStart
    /\ uniq = [t \in Tables |-> FALSE]
    /\ tgt \in [Tables -> Schemas]
    /\ email_notify = FALSE /\ recipient_email = ""
    /\ max_workers = MaxWorkers

SpecFair == InitFair /\ [][Next]_vars /\ WF_vars(Next)

----------------------------------------------------------------------------
\* Batch engine: merge_and_update_data on one table

\* Longest source table and largest batch_size of the model.
MaxRows == 3
MaxBatch == 2

\* batch_size=500, the default of merge_and_update_data.
DefaultBatchSize == 500

\* A source row has a key column k and a data column v; the target rejects
\* the value "bad" (a DataError).
Keys == {"k1", "k2"}
Vals == {"x", "y", "bad"}
SourceRows == [k : Keys, v : Vals]
RowSeqs == UNION { [1..n -> SourceRows] : n \in 0..MaxRows }

\* Rows a target table can hold before the run.
InitialTargets(s) ==
    IF s.exists /\ s.insert_date
    THEN {<<>>, <<[k |-> "k1", v |-> "y", insert_date |-> 0]>>}
    ELSE {<<>>}

Min(a, b) == IF a < b THEN a ELSE b

\* len(range(0, n, step))
RECURSIVE NumBatches(_, _)
NumBatches(n, step) == IF n <= 0 THEN 0 ELSE 1 + NumBatches(n - step, step)

\* Mutant: the slice rows[i:i + batch_size - 1] loses the last row of a batch.
BatchShort(rs, lo, bs) == SubSeq(rs, lo + 1, Min(lo + bs - 1, Len(rs)))

\* batch = rows[i:i + batch_size]
Batch(rs, lo, bs) == SubSeq(rs, lo + 1, Min(lo + bs, Len(rs)))

\* values = [tuple(row.values()) + (datetime.now(),) for row in batch]
Values(batch, now) ==
    [j \in 1..Len(batch) |-> [k |-> batch[j].k, v |-> batch[j].v, insert_date |-> now]]

\* Mutant: the conflict clause is never attached.
conflict_action_never(u) == FALSE

\* `if unique_cols:` the statement carries ON CONFLICT (...) DO UPDATE SET ...
conflict_action(u) == u

HasKey(view, key) == \E x \in 1..Len(view) : view[x].k = key
DupKeys(vals) == \E a, b \in 1..Len(vals) : a # b /\ vals[a].k = vals[b].k

\* What the target answers to the INSERT of one batch: "none" or the error.
StatementError(view, vals, s, onConflict) ==
    IF ~s.exists THEN "undefined_table"
    ELSE IF ~s.insert_date THEN "undefined_column"
    ELSE IF \E j \in 1..Len(vals) : vals[j].v = "bad" THEN "data_error"
    ELSE IF onConflict
         THEN IF ~s.unique THEN "no_constraint"
              ELSE IF DupKeys(vals) THEN "cardinality_violation"
              ELSE "none"
    ELSE IF s.unique /\ (DupKeys(vals) \/ \E j \in 1..Len(vals) : HasKey(view, vals[j].k))
         THEN "unique_violation"
    ELSE "none"

RECURSIVE NewRows(_, _)
NewRows(view, vals) ==
    IF vals = <<>> THEN <<>>
    ELSE (IF HasKey(view, Head(vals).k) THEN <<>> ELSE <<Head(vals)>>)
         \o NewRows(view, Tail(vals))

\* The table after an accepted INSERT: with ON CONFLICT every column of a row
\* whose key is present is set to the incoming value, the other rows are added.
execute_values(view, vals, onConflict) ==
    IF onConflict
    THEN [x \in 1..Len(view) |->
            IF \E j \in 1..Len(vals) : vals[j].k = view[x].k
            THEN vals[CHOOSE j \in 1..Len(vals) : vals[j].k = view[x].k]
            ELSE view[x]] \o NewRows(view, vals)
    ELSE view \o vals

\* Columns of the source table, as the keys of a fetched row list them.
SourceColumns == <<"k", "v">>

\* columns = list(batch[0].keys()); columns.append("insert_date")
statement_columns == Append(SourceColumns, "insert_date")

\* The unique_cols argument as a list: the key column, or None.
UniqueCols(u) == IF u THEN <<"k">> ELSE <<>>

\* Mutant: the SET list leaves out the columns of the conflict target.
update_cols_non_key(cols, ucols) ==
    SelectSeq(cols, LAMBDA c : \A j \in 1..Len(ucols) : ucols[j] # c)

\* update_cols: `col = EXCLUDED.col for col in columns`
update_cols(cols, ucols) == cols

\* insert_query: INSERT INTO table (fields) VALUES %s, followed by
\* ON CONFLICT (conflict_cols) DO UPDATE SET update_cols or by nothing.
insert_query(u) ==
    [fields |-> statement_columns,
     on_conflict |-> conflict_action(u),
     conflict_cols |-> IF conflict_action(u) THEN UniqueCols(u) ELSE <<>>,
     update_cols |-> IF conflict_action(u)
                     THEN update_cols(statement_columns, UniqueCols(u))
                     ELSE <<>>]

\* Operations on pg_conn: execute_values of rows lo..hi, commit, rollback.
ExecuteOp(stmt, lo, hi) == [op |-> "execute", stmt |-> stmt, lo |-> lo, hi |-> hi]
CommitOp == [op |-> "commit"]
RollbackOp == [op |-> "rollback"]

\* Mutant: the loop advances by one row.
range_step_one(bs) == 1

\* Step of `range(0, len(rows), batch_size)`
range_step(bs) == bs

\* Mutant: with no rows the function leaves through the except clause.
no_rows_rollback(log) == Append(log, RollbackOp)

\* `if not rows: ... return`
no_rows_return(log) == log

\* Mutant: the batch is not committed inside the loop.
pg_commit_deferred(c, view) == c

\* pg_conn.commit(): the view of the transaction becomes the committed table.
pg_commit(c, view) == view

\* pg_conn.rollback(): the view falls back to the committed table.
pg_rollback(c, view) == c

\* ensure_table_exists on connections of its own: the target is created from
\* the source columns when it is absent.
ensure_table_exists ==
    /\ mpc = "prepare"
    /\ schema' = IF check_table_exists(schema) THEN schema
                 ELSE create_postgresql_table(schema)
    /\ mpc' = "select"
    /\ run' = 1
    /\ snap' = <<committed>>
    /\ UNCHANGED <<rows, batch_size, unique_cols, committed, txn, i, batches, result,
                   pg_log, schedVars, auxVars>>

\* mysql_cur.execute("SELECT * FROM ..."); rows = fetchall(); `if not rows: return`
merge_select ==
    /\ mpc = "select"
    /\ i' = 0
    /\ batches' = <<>>
    /\ IF rows = <<>>
       THEN /\ mpc' = "returned"
            /\ pg_log' = no_rows_return(<<>>)
            /\ result' = Append(result, [out |-> "empty", at |-> 0, batches |-> <<>>])
            /\ snap' = Append(snap, committed)
       ELSE /\ mpc' = "batch"
            /\ pg_log' = <<>>
            /\ UNCHANGED <<result, snap>>
    /\ UNCHANGED <<rows, batch_size, unique_cols, schema, committed, txn, run, schedVars, auxVars>>

\* One iteration of `for i in range(0, len(rows), batch_size)`: the batch is
\* executed and committed, or the except clause rolls back and re-raises;
\* the call returns when the range is exhausted. Besides the errors the
\* statement itself earns, the target may fail it at any time (fault).
merge_and_update_data ==
    /\ mpc = "batch" /\ i < Len(rows)
    /\ \E fault \in BOOLEAN :
       LET batch == Batch(rows, i, batch_size)
           vals  == Values(batch, run)
           err   == IF fault THEN "operational_error"
                    ELSE StatementError(txn, vals, schema, conflict_action(unique_cols))
           view  == execute_values(txn, vals, conflict_action(unique_cols))
           done  == Append(batches, <<i + 1, i + Len(batch)>>)
           exec  == ExecuteOp(insert_query(unique_cols), i + 1, i + Len(batch))
       IN IF err = "none"
          THEN /\ txn' = view
               /\ committed' = pg_commit(committed, view)
               /\ batches' = done
               /\ pg_log' = pg_log \o <<exec, CommitOp>>
               /\ i' = i + range_step(batch_size)
               /\ IF i + range_step(batch_size) < Len(rows)
                  THEN UNCHANGED <<mpc, result, snap>>
                  ELSE /\ mpc' = "returned"
                       /\ result' = Append(result, [out |-> "ok", at |-> Len(rows),
                                                    batches |-> done])
                       /\ snap' = Append(snap, committed')
          ELSE /\ txn' = pg_rollback(committed, txn)
               /\ pg_log' = pg_log \o <<exec, RollbackOp>>
               /\ mpc' = "returned"
               /\ result' = Append(result, [out |-> err, at |-> i, batches |-> batches])
               /\ snap' = Append(snap, committed)
               /\ UNCHANGED <<committed, batches, i>>
    /\ UNCHANGED <<rows, batch_size, unique_cols, schema, run, schedVars, auxVars>>

\* merge_and_update_data is called a second time, the source data unchanged.
merge_again ==
    /\ mpc = "returned" /\ run = 1
    /\ run' = 2
    /\ mpc' = "select"
    /\ txn' = committed
    /\ pg_log' = <<>>
    /\ UNCHANGED <<rows, batch_size, unique_cols, schema, committed, i, batches,
                   result, snap, schedVars, auxVars>>

SchedIdle ==
    /\ pc = "idle"
    /\ uniq = [t \in Tables |-> FALSE]
    /\ tgt = [t \in Tables |-> Missing]
    /\ pend = {} /\ pgAbortedBy = "none" /\ mysqlCur = "none"
    /\ prep = [t \in Tables |-> "queued"]
    /\ prepErr = [t \in Tables |-> "none"]
    /\ prepSeen = {}
    /\ failed_tables = <<>>
    /\ mig = [t \in Tables |-> "queued"]
    /\ migErr = [t \in Tables |-> "none"]
    /\ batchRan = [t \in Tables |-> FALSE]
    /\ retryList = <<>> /\ retryIdx = 0 /\ attempt = 0
    /\ retried = [t \in Tables |-> 0]
    /\ summary = <<>>
    /\ email_notify = FALSE /\ recipient_email = "" /\ sent = <<>>
    /\ max_workers = MaxWorkers

InitMerge ==
    /\ SchedIdle
    /\ ConnIdle /\ OpIdle /\ TypesIdle /\ CatalogIdle
    /\ BackoffIdle /\ AdvisorIdle /\ PromptIdle
    /\ mpc = "prepare"
    /\ rows \in RowSeqs
    /\ batch_size \in 1..MaxBatch
    /\ unique_cols \in BOOLEAN
    /\ schema \in Schemas
    /\ committed \in InitialTargets(schema)
    /\ txn = committed
    /\ i = 0 /\ batches = <<>> /\ run = 0 /\ result = <<>> /\ snap = <<>>
    /\ pg_log = <<>>

NextMerge ==
    \/ ensure_table_exists
    \/ merge_select
    \/ merge_and_update_data
    \/ merge_again

SpecMerge == InitMerge /\ [][NextMerge]_vars

----------------------------------------------------------------------------
\* Properties of the batch engine (SpecMerge)

Ended(r) == r <= Len(result)
Raised(r) == Ended(r) /\ result[r].out \notin {"ok", "empty"}
Proj(t) == [x \in 1..Len(t) |-> [k |-> t[x].k, v |-> t[x].v]]
HasRow(t, r) == \E x \in 1..Len(t) : t[x].k = r.k /\ t[x].v = r.v

\* C5: when an application of merge_and_update_data raised at the batch that
\* starts at row index `at`, the rows of the earlier batches are in the target
\* afterwards (under upsert a row may have been overwritten by a later row of
\* those batches with the same key), and nothing of the failing batch is:
\* insert-only the target grew by exactly `at` rows, and with a conflict
\* target it holds no key beyond those it had and those of the earlier batches.
PartialBatchDurability ==
    \A r \in 1..2 :
      Raised(r) =>
        LET at == result[r].at
            before == snap[r]
            aft == snap[r + 1]
        IN /\ \A j \in 1..at :
                \/ HasRow(aft, rows[j])
                \/ unique_cols /\ \E j2 \in (j + 1)..at : rows[j2].k = rows[j].k
           /\ ~unique_cols => Len(aft) = Len(before) + at
           /\ unique_cols =>
                \A x \in 1..Len(aft) :
                  HasKey(before, aft[x].k) \/ \E j \in 1..at : rows[j].k = aft[x].k
           /\ Len(result[r].batches) = NumBatches(at, batch_size)

\* C5 witness: an application raised at a batch after the first one.
PartialBatchDurabilityWitness ==
    Raised(1) /\ result[1].at > 0 /\ Len(snap[2]) > Len(snap[1])

\* C6: a successful application has committed ceil(n / batch_size) batches
\* that are consecutive slices of batch_size rows (the last one may be
\* shorter), so that every source row lies in exactly one batch, and the
\* target then holds the n rows; 1200 rows in batches of 500 are 3 batches.
BatchPartition ==
    /\ NumBatches(1200, DefaultBatchSize) = 3
    /\ \A r \in 1..2 :
         (Ended(r) /\ result[r].out = "ok") =>
           LET bs == result[r].batches
               n == Len(rows)
           IN /\ Len(bs) = (n + batch_size - 1) \div batch_size
              /\ \A j \in 1..n :
                   Cardinality({b \in 1..Len(bs) : bs[b][1] <= j /\ j <= bs[b][2]}) = 1
              /\ \A b \in 1..Len(bs) :
                   /\ bs[b][1] = (b - 1) * batch_size + 1
                   /\ bs[b][2] = Min(b * batch_size, n)
              /\ ~unique_cols => Len(snap[r + 1]) = Len(snap[r]) + n
              /\ \A j \in 1..n : HasKey(snap[r + 1], rows[j].k)

\* C6 witness: a successful application whose last batch is shorter.
BatchPartitionWitness ==
    /\ Ended(1) /\ result[1].out = "ok"
    /\ Len(result[1].batches) >= 2
    /\ Len(rows) % batch_size # 0

\* C7: with a non-empty unique_cols, a second successful application on the
\* same source data leaves the target with the rows and the source-column
\* values the first one left: no row is added.
UpsertIdempotent ==
    (unique_cols /\ Ended(2) /\ result[1].out = "ok" /\ result[2].out = "ok")
      => Proj(snap[3]) = Proj(snap[2])

\* C7 witness: both applications succeeded over several batches and the
\* second one rewrote the rows (their insert_date changed).
UpsertIdempotentWitness ==
    /\ unique_cols /\ Ended(2) /\ result[1].out = "ok" /\ result[2].out = "ok"
    /\ Len(result[2].batches) >= 2
    /\ snap[3] # snap[2]

\* C8 (as claimed): without unique columns, a second application on unchanged
\* data, after a first one that inserted the rows, never returns normally, and
\* unless the target itself failed the error it raises is a uniqueness error.
RerunRaisesConflict ==
    (~unique_cols /\ Ended(2) /\ result[1].out = "ok")
      => /\ result[2].out # "ok"
         /\ result[2].out # "operational_error" => result[2].out = "unique_violation"

----------------------------------------------------------------------------
\* Properties of the scheduler (Spec)

\* The preparation task or the migration task of t ended with an error.
GenuinelyFailed(t) == prep[t] = "raised" \/ migErr[t] # "none"

\* C1 (as claimed): a table whose preparation task raised is never handed to
\* the migration phase: no migrate_single_table task is started for it.
PrepFailedExcluded ==
    \A t \in Tables : prep[t] = "raised" => mig[t] = "queued"

\* C2 (as claimed): when the run is over, a table of the retry list whose
\* merge can succeed on real connections has been removed from failed_tables
\* and is not named in the summary.
RetrySucceeds ==
    pc = "done" =>
      \A t \in Tables :
        (InList(retryList, t) /\ "ok" \in merge_outcomes(Connection, Connection, tgt[t], FALSE))
          => ~InList(failed_tables, t) /\ ~InList(summary[1], t)

\* C3 (as claimed): when the migration phase is over, failed_tables holds each
\* table whose preparation or migration task failed exactly once, and no other.
FailureListExact ==
    (pc = "migrate" /\ \A t \in Tables : MigDone(t)) =>
      \A t \in Tables : Count(failed_tables, t) = IF GenuinelyFailed(t) THEN 1 ELSE 0

\* C4 (as claimed): a table whose merge of the migration phase returned is not
\* in failed_tables, is never re-attempted and is not named in the summary.
MergeSuccessTerminal ==
    \A t \in Tables :
      (mig[t] = "true" /\ migErr[t] = "none") =>
        /\ ~InList(failed_tables, t)
        /\ retried[t] = 0
        /\ \A m \in 1..Len(summary) : ~InList(summary[m], t)

\* C9 (as claimed): when a batch has been executed for a table with unique
\* columns, the preparation of the table had succeeded, and the target table
\* exists with a unique constraint on those columns.
ReadyBeforeUpsert ==
    \A t \in Tables :
      (uniq[t] /\ batchRan[t]) =>
        prep[t] = "returned" /\ tgt[t].exists /\ tgt[t].unique

\* C10 (as claimed): no preparation task fails because of a statement of
\* another table, and a preparation that returned has left its table in the
\* target whatever happened to the other tables.
NoCrossTableFailure ==
    \A t \in Tables :
      /\ prepErr[t] # "other"
      /\ (prep[t] = "returned" /\ pc # "prep") => tgt[t].exists

----------------------------------------------------------------------------
\* Connections in use by the tasks of the scheduler

\* The opener of the connection pair a running task works on: the preparation
\* tasks are submitted with the mysql_conn / pg_conn the main thread opened,
\* a migration task opens its own pair.
ConnectionsUsed(t) ==
    (IF t \in PrepActive THEN {"main"} ELSE {}) \cup
    (IF mig[t] \in {"merge", "exit"} THEN {t} ELSE {})

\* C11 (as claimed): two tasks that run at the same time never work on the
\* same connection pair.
ConnectionsNotShared ==
    \A t, u \in Tables : t # u => ConnectionsUsed(t) \cap ConnectionsUsed(u) = {}

\* C15: while the retry phase runs no preparation task and no migration task
\* is running or still queued, and the entries are re-attempted one at a
\* time, in the order of the copy of the failure list.
RetryAfterPool ==
    pc = "retry" =>
      /\ PrepActive = {} /\ MigActive = {}
      /\ \A t \in Tables : prep[t] \in {"returned", "raised"} /\ mig[t] \in {"true", "false"}
      /\ retryIdx \in 1..(Len(retryList) + 1)
      /\ \A t \in Tables :
           retried[t] > 0 => \E j \in 1..Min(retryIdx, Len(retryList)) : retryList[j] = t

\* C15 witness: a retry is under way.
RetryAfterPoolWitness ==
    pc = "retry" /\ attempt > 0 /\ Len(retryList) >= 2 /\ retryIdx = 2

\* C16 (as claimed): a table whose migration was reported successful
\* (migrate_single_table returned True) is not named as failed in the summary.
NotBothSucceededAndFailed ==
    pc = "done" =>
      \A t \in Tables : mig[t] = "true" => ~InList(summary[1], t)

----------------------------------------------------------------------------
\* The summary

----------------------------------------------------------------------------
\* Connection context managers: `with connect_mysql(config, retries) as c:`
\* and `with connect_postgresql(config, retries) as c:`

\* Most calls of connect() followed in one run of a context manager.
MaxCalls == 4

\* What the driver's connect() can do. Only connect_mysql tests
\* connection.is_connected() on the handle it got.
connect_outcomes(engine) ==
    {"error", "connected"} \cup (IF engine = "mysql" THEN {"unconnected"} ELSE {})

\* The finally clause: an open handle is closed; None, a closed handle and
\* a handle that is not connected are left as they are.
finally_close(c) == IF c = "open" THEN "closed" ELSE c

\* One pass of `while attempt < retries` up to the yield, or through the
\* except and finally clauses when connect() raised. A yield that follows an
\* exception thrown into the generator makes contextlib raise RuntimeError
\* ("generator didn't stop after throw()") out of the with statement; the
\* generator stays suspended at that yield with its new connection open
\* until it is collected (Python up to 3.11), or is closed first (3.12 on).
connect ==
    /\ cm_pc = "loop" /\ conn_attempt < conn_retries /\ connect_calls < MaxCalls
    /\ connect_calls' = connect_calls + 1
    /\ \E o \in connect_outcomes(cm_engine) :
         CASE o = "error" ->
                /\ conn_attempt' = conn_attempt + 1
                /\ connection' = finally_close(connection)
                /\ UNCHANGED <<cm_pc, open_conns, yields, cm_outcome>>
           [] o = "unconnected" ->
                /\ connection' = finally_close("unconnected")
                /\ UNCHANGED <<cm_pc, conn_attempt, open_conns, yields, cm_outcome>>
           [] o = "connected" /\ yields = 0 ->
                /\ connection' = "open"
                /\ open_conns' = open_conns + 1
                /\ yields' = 1
                /\ cm_pc' = "body"
                /\ UNCHANGED <<conn_attempt, cm_outcome>>
           [] o = "connected" /\ yields > 0 ->
                \E gen_closed \in BOOLEAN :
                  /\ connection' = IF gen_closed THEN finally_close("open") ELSE "open"
                  /\ open_conns' = IF gen_closed THEN open_conns ELSE open_conns + 1
                  /\ yields' = yields + 1
                  /\ cm_pc' = "returned"
                  /\ cm_outcome' = "RuntimeError"
                  /\ UNCHANGED conn_attempt
    /\ UNCHANGED <<cm_engine, conn_retries, schedVars, promptVars, mergeVars, backoffVars, advisorVars, opVars, typeVars,
                   catalogVars>>

\* `while attempt < retries` is false: the generator ends. Before any yield
\* contextlib raises RuntimeError ("generator didn't yield") and the body
\* does not run; after an exception of the body was thrown in, the end of
\* the generator makes the with statement swallow that exception.
connect_exhausted ==
    /\ cm_pc = "loop" /\ conn_attempt >= conn_retries
    /\ cm_pc' = "returned"
    /\ cm_outcome' = IF yields = 0 THEN "RuntimeError" ELSE "suppressed"
    /\ UNCHANGED <<cm_engine, conn_retries, conn_attempt, connection, open_conns,
                   connect_calls, yields, schedVars, promptVars, mergeVars, backoffVars, advisorVars, opVars, typeVars,
                   catalogVars>>

\* The body of the with statement ends normally: `return`, then finally.
body_returns ==
    /\ cm_pc = "body"
    /\ connection' = finally_close(connection)
    /\ open_conns' = open_conns - 1
    /\ cm_pc' = "returned"
    /\ cm_outcome' = "ok"
    /\ UNCHANGED <<cm_engine, conn_retries, conn_attempt, connect_calls, yields,
                   schedVars, promptVars, mergeVars, backoffVars, advisorVars, opVars, typeVars, catalogVars>>

\* The body raises. An Error of the manager's own driver is caught by the
\* except clause around the yield, counted as a failed attempt, and the
\* loop goes on; any other exception passes through finally to the caller.
body_raises ==
    /\ cm_pc = "body"
    /\ connection' = finally_close(connection)
    /\ open_conns' = open_conns - 1
    /\ \E e \in {"driver", "other"} :
         IF e = "driver"
         THEN /\ conn_attempt' = conn_attempt + 1
              /\ cm_pc' = "loop"
              /\ UNCHANGED cm_outcome
         ELSE /\ cm_pc' = "returned"
              /\ cm_outcome' = "raised"
              /\ UNCHANGED conn_attempt
    /\ UNCHANGED <<cm_engine, conn_retries, connect_calls, yields,
                   schedVars, promptVars, mergeVars, backoffVars, advisorVars, opVars, typeVars, catalogVars>>

InitConn ==
    /\ SchedIdle /\ MergeIdle /\ OpIdle /\ TypesIdle /\ CatalogIdle
    /\ BackoffIdle /\ AdvisorIdle /\ PromptIdle
    /\ cm_pc = "loop"
    /\ cm_engine \in {"mysql", "pg"}
    /\ conn_retries \in 0..Retries
    /\ conn_attempt = 0 /\ connection = "None" /\ open_conns = 0
    /\ connect_calls = 0 /\ yields = 0 /\ cm_outcome = "none"

NextConn ==
    \/ connect
    \/ connect_exhausted
    \/ body_returns
    \/ body_raises

SpecConn == InitConn /\ [][NextConn]_vars

\* C12 (as claimed): when control is back at the caller of the with
\* statement, on whatever path, no connection the context manager opened is
\* still open.
NoConnectionLeftOpen ==
    cm_pc = "returned" => open_conns = 0

\* C13 (as claimed): a context manager calls connect() at most `retries` times.
ConnectAttemptsBounded ==
    connect_calls <= conn_retries

\* C30 (as claimed): once the context manager has yielded, it neither
\* re-enters its connection loop nor yields again, and its caller gets
\* either a normal end of the with statement (the body ended normally) or
\* the very exception the body raised.
BodyErrorPropagates ==
    /\ yields <= 1
    /\ cm_pc = "loop" => yields = 0
    /\ (cm_pc = "returned" /\ yields >= 1) => cm_outcome \in {"ok", "raised"}

----------------------------------------------------------------------------
\* retry_migration_operation(mysql_conn, pg_conn, table_name, schema_name,
\* retries) called with two connections, as resolve_error_based_on_choice does

\* Mutant: the last attempt is taken for one that has a successor.
more_attempts_always(a, r) == a < r

\* `if attempt < retries - 1`
more_attempts(a, r) == a < r - 1

MergeEvent(o) == [kind |-> "merge", out |-> o]
SleepEvent == [kind |-> "sleep", out |-> "backoff"]

\* One pass of `for attempt in range(retries)`: the merge, then `break` when
\* it returned; when it raised, either time.sleep(exponential_backoff(attempt))
\* and the next pass, or `raise` of the exception just caught.
retry_attempt ==
    /\ op_pc = "loop" /\ op_attempt < op_retries
    /\ \E o \in merge_outcomes(Connection, Connection, op_target, FALSE) :
         IF ~MergeRaised(o)
         THEN /\ op_log' = Append(op_log, MergeEvent(o))
              /\ op_pc' = "returned"
              /\ UNCHANGED <<op_attempt, op_error>>
         ELSE IF more_attempts(op_attempt, op_retries)
         THEN /\ op_log' = op_log \o <<MergeEvent(o), SleepEvent>>
              /\ op_attempt' = op_attempt + 1
              /\ UNCHANGED <<op_pc, op_error>>
         ELSE /\ op_log' = Append(op_log, MergeEvent(o))
              /\ op_pc' = "raised"
              /\ op_error' = o
              /\ UNCHANGED op_attempt
    /\ UNCHANGED <<op_retries, op_target, schedVars, promptVars, mergeVars, backoffVars, advisorVars, connVars, typeVars,
                   catalogVars>>

\* range(retries) is exhausted: the function returns None.
retry_exhausted ==
    /\ op_pc = "loop" /\ op_attempt >= op_retries
    /\ op_pc' = "returned"
    /\ UNCHANGED <<op_retries, op_attempt, op_target, op_log, op_error, schedVars, promptVars,
                   mergeVars, backoffVars, advisorVars, connVars, typeVars,
                   catalogVars>>

InitOp ==
    /\ SchedIdle /\ MergeIdle /\ ConnIdle /\ TypesIdle /\ CatalogIdle
    /\ BackoffIdle /\ AdvisorIdle /\ PromptIdle
    /\ op_pc = "loop"
    /\ op_retries \in 0..Retries
    /\ op_target \in Schemas
    /\ op_attempt = 0 /\ op_log = <<>> /\ op_error = "none"

NextOp ==
    \/ retry_attempt
    \/ retry_exhausted

SpecOp == InitOp /\ [][NextOp]_vars

IsMerge(e) == e.kind = "merge"
Merges == SelectSeq(op_log, IsMerge)
AllFailed(ms) == \A j \in 1..Len(ms) : MergeRaised(ms[j].out)

\* C14: retry_migration_operation runs the merge at most `retries` times and
\* no merge follows one that returned; every sleep stands between a merge
\* that raised and the next merge, so none follows the last attempt; it
\* raises exactly when `retries` (>= 1) merges have all raised, and then
\* raises the error of the last one; otherwise it returns.
RetryLoopContract ==
    /\ Len(Merges) <= op_retries
    /\ \A j \in 1..(Len(Merges) - 1) : MergeRaised(Merges[j].out)
    /\ \A j \in 1..Len(op_log) :
         op_log[j].kind = "sleep" =>
           /\ j > 1 /\ op_log[j - 1].kind = "merge" /\ MergeRaised(op_log[j - 1].out)
           /\ j < Len(op_log) => op_log[j + 1].kind = "merge"
           /\ j = Len(op_log) => op_pc = "loop" /\ Len(Merges) < op_retries
    /\ op_pc = "raised" =>
         /\ op_retries >= 1 /\ Len(Merges) = op_retries /\ AllFailed(Merges)
         /\ op_error = Merges[Len(Merges)].out
    /\ op_pc = "returned" =>
         \/ op_retries = 0 /\ op_log = <<>>
         \/ Len(Merges) >= 1 /\ ~MergeRaised(Merges[Len(Merges)].out)

RetryLoopContractWitness ==
    /\ op_pc = "raised" /\ Len(Merges) = Retries
    /\ Merges[1].out # Merges[Retries].out /\ op_error = Merges[Retries].out
    /\ Len(op_log) = 2 * Retries - 1

----------------------------------------------------------------------------
\* Strings whose letter case and parameter list matter: a string is its
\* lower-case spelling without parameters (base), the case it is written in
\* and, for a column type, whether a parameter list "(...)" follows the name.

\* str.lower()
lower(s) == [s EXCEPT !.case = "lower"]

\* str.split('(')[0]
split_paren(s) == [s EXCEPT !.params = FALSE]

\* dict.get(key, default): the key must equal an entry character by
\* character; the keys of both dictionaries are bare lower-case names.
dict_get(d, key, default) ==
    IF key.case = "lower" /\ ~key.params /\ key.base \in DOMAIN d
    THEN d[key.base]
    ELSE default

----------------------------------------------------------------------------
\* Type mapping

\* type_mappings of map_mysql_type_to_postgresql
type_mappings ==
    [int |-> "INTEGER", tinyint |-> "SMALLINT", bigint |-> "BIGINT",
     varchar |-> "VARCHAR", text |-> "TEXT", double |-> "DOUBLE PRECISION",
     decimal |-> "NUMERIC", datetime |-> "TIMESTAMP", timestamp |-> "TIMESTAMP",
     date |-> "DATE", blob |-> "BYTEA"]

\* MYSQL_TO_POSTGRES_TYPES of utils/constants.py
MYSQL_TO_POSTGRES_TYPES ==
    [int |-> "INTEGER", smallint |-> "SMALLINT", bigint |-> "BIGINT",
     tinyint |-> "SMALLINT", mediumint |-> "INTEGER", float |-> "REAL",
     double |-> "DOUBLE PRECISION", decimal |-> "NUMERIC", varchar |-> "VARCHAR",
     char |-> "CHAR", text |-> "TEXT", tinytext |-> "TEXT", mediumtext |-> "TEXT",
     longtext |-> "TEXT", blob |-> "BYTEA", tinyblob |-> "BYTEA",
     mediumblob |-> "BYTEA", longblob |-> "BYTEA", datetime |-> "TIMESTAMP",
     timestamp |-> "TIMESTAMP", date |-> "DATE", time |-> "TIME", enum |-> "TEXT",
     set |-> "TEXT", json |-> "JSON"]

\* database_connections.py: the mapper of create_postgresql_table and of
\* add_missing_columns.
map_mysql_type_to_postgresql(t) == dict_get(type_mappings, lower(t), "TEXT")

\* utils/helpers.py: the mapper of the schema comparison.
map_mysql_to_postgres_type(t) ==
    dict_get(MYSQL_TO_POSTGRES_TYPES, lower(split_paren(t)), "TEXT")

\* Column types a source can report: every name either dictionary knows and
\* one that neither does, in lower or upper case, with or without parameters.
TypeNames == DOMAIN MYSQL_TO_POSTGRES_TYPES \cup DOMAIN type_mappings \cup {"geometry"}
MysqlTypes == [base : TypeNames, case : {"lower", "upper"}, params : BOOLEAN]

\* create_postgresql_table maps the type of a column of the new table.
create_column ==
    /\ pg_type = "none"
    /\ pg_type' = map_mysql_type_to_postgresql(mysql_type)
    /\ UNCHANGED <<mysql_type, helper_type, schedVars, promptVars, mergeVars, backoffVars, advisorVars, connVars, opVars,
                   catalogVars>>

\* The schema comparison maps the type of a source column.
compare_column ==
    /\ helper_type = "none"
    /\ helper_type' = map_mysql_to_postgres_type(mysql_type)
    /\ UNCHANGED <<mysql_type, pg_type, schedVars, promptVars, mergeVars, backoffVars, advisorVars, connVars, opVars,
                   catalogVars>>

InitTypes ==
    /\ SchedIdle /\ MergeIdle /\ ConnIdle /\ OpIdle /\ CatalogIdle
    /\ BackoffIdle /\ AdvisorIdle /\ PromptIdle
    /\ mysql_type \in MysqlTypes
    /\ pg_type = "none" /\ helper_type = "none"

NextTypes ==
    \/ create_column
    \/ compare_column

SpecTypes == InitTypes /\ [][NextTypes]_vars

\* C19 (as claimed): the type a column of a new table gets is the one its
\* lower-cased name without parameter list is mapped to, TEXT when the
\* mapping does not have that name.
ParametersStripped ==
    pg_type # "none" =>
      pg_type = (IF mysql_type.base \in DOMAIN type_mappings
                 THEN type_mappings[mysql_type.base]
                 ELSE "TEXT")

----------------------------------------------------------------------------
\* Target catalog: create_postgresql_table and check_table_exists

\* Most tables created in one run of this part.
MaxTables == 2

Name(b, c) == [base |-> b, case |-> c, params |-> FALSE]

\* Spellings of a table name and of a schema name a caller can pass.
TableNames == {Name("orders", c) : c \in {"lower", "upper", "mixed"}}
SchemaNames == {Name("public", "lower"), Name("public", "upper"),
                Name("sales", "mixed"), Name("sales", "lower")}

\* Schemas of the target database: public, and one created as "Sales".
PgSchemas == {Name("public", "lower"), Name("sales", "mixed")}

\* CREATE TABLE IF NOT EXISTS "schema"."table": both identifiers are quoted,
\* so the server takes them letter by letter; the statement raises when
\* there is no schema of exactly that name.
CreateTable ==
    /\ Cardinality(pg_catalog) < MaxTables
    /\ \E t \in TableNames, sc \in SchemaNames :
         /\ pg_catalog' = IF sc \in PgSchemas
                          THEN pg_catalog \cup {[schema |-> sc, table |-> t]}
                          ELSE pg_catalog
         /\ last_create' = <<[table |-> t, schema |-> sc, ok |-> sc \in PgSchemas]>>
    /\ UNCHANGED <<last_check, schedVars, promptVars, mergeVars, backoffVars, advisorVars, connVars, opVars, typeVars>>

\* SELECT EXISTS(... WHERE table_name = %s AND table_schema = %s) with the
\* arguments (table_name.lower(), schema_name.lower()); the comparison with
\* the stored names is exact.
CheckTable ==
    /\ \E t \in TableNames, sc \in SchemaNames :
         last_check' = <<[table |-> t, schema |-> sc, after |-> last_create,
                         exists |-> [schema |-> lower(sc), table |-> lower(t)]
                                      \in pg_catalog]>>
    /\ UNCHANGED <<pg_catalog, last_create, schedVars, promptVars, mergeVars, backoffVars, advisorVars, connVars, opVars,
                   typeVars>>

InitCatalog ==
    /\ SchedIdle /\ MergeIdle /\ ConnIdle /\ OpIdle /\ TypesIdle
    /\ BackoffIdle /\ AdvisorIdle /\ PromptIdle
    /\ pg_catalog = {} /\ last_create = <<>> /\ last_check = <<>>

NextCatalog ==
    \/ CreateTable
    \/ CheckTable

SpecCatalog == InitCatalog /\ [][NextCatalog]_vars

\* C20 (as claimed): a check_table_exists that follows a successful
\* create_postgresql_table(t, s) and is given t and s in any letter case
\* returns true.
CheckFindsCreatedTable ==
    \A j \in 1..Len(last_check) :
      LET chk == last_check[j] IN
        \A k \in 1..Len(chk.after) :
          LET cr == chk.after[k] IN
            (cr.ok /\ lower(cr.table) = lower(chk.table)
                   /\ lower(cr.schema) = lower(chk.schema)) => chk.exists

----------------------------------------------------------------------------
\* Phases and pools of the scheduler

PrepUnfinished == {t \in Tables : prep[t] \notin {"returned", "raised"}}

\* C28 (as claimed): a run comes to a state in which the migration task of
\* one table is running while the preparation of another is unfinished. No
\* run does: by GlobalBarrier below no such state is reachable at all.
PhasesOverlap ==
    <>(\E t, u \in Tables : t # u /\ t \in MigActive /\ u \in PrepUnfinished)

\* C28 (amended): there is a global barrier: no migration task has been
\* started, for any table, while the preparation of any table is unfinished
\* or the main thread is still in the preparation phase.
GlobalBarrier ==
    \A t \in Tables :
      mig[t] # "queued" => PrepUnfinished = {} /\ pc \notin {"connect1", "prep"}

\* A migration task runs for one table while the other, whose preparation
\* has raised, has not been taken by a worker yet.
GlobalBarrierWitness ==
    \E t, u \in Tables :
      /\ t \in MigActive /\ mig[u] = "queued"
      /\ prep[u] = "raised" /\ prep[t] = "returned"

\* Connections held by the migration tasks: each task inside its with-block
\* holds the pair its two context managers opened.
MigConnections == 2 * Cardinality({t \in Tables : mig[t] \in {"merge", "exit"}})

\* C29: in either phase at most max_workers tasks are running, and the
\* migration tasks hold at most 2 * max_workers open connections.
PoolBound ==
    /\ Cardinality(PrepActive) <= max_workers
    /\ Cardinality(MigActive) <= max_workers
    /\ MigConnections <= 2 * max_workers

\* A task waits in the queue because every worker of the pool is busy.
PoolBoundWitness ==
    /\ Cardinality(Tables) > max_workers
    /\ Cardinality(MigActive) = max_workers
    /\ MigConnections = 2 * max_workers
    /\ \E t \in Tables : mig[t] = "queued"

----------------------------------------------------------------------------
\* exponential_backoff(attempt, base, max_delay, jitter) of error_handling.py
\* and of utils/helpers.py, times in hundredths of a second

\* Largest attempt number of the model.
MaxAttempt == 7

\* base=2 and max_delay=60 (RETRY_BACKOFF_BASE, RETRY_MAX_DELAY)
BackoffBase == 2
BackoffMaxDelay == 60

\* random.uniform(0.8, 1.2), in percent
JitterLow == 80
JitterHigh == 120

\* Mutant: the delay is not capped.
uncapped_delay(a) == BackoffBase ^ a

\* delay = min(max_delay, base ** attempt)
capped_delay(a) == Min(BackoffMaxDelay, BackoffBase ^ a)

\* One call. The function of utils/helpers.py also sleeps for the delay.
exponential_backoff ==
    /\ bo_delay = -1
    /\ \E f \in (IF bo_jitter THEN JitterLow..JitterHigh ELSE {100}) :
         /\ bo_delay' = capped_delay(bo_attempt) * f
         /\ bo_slept' = IF bo_impl = "helpers" THEN capped_delay(bo_attempt) * f ELSE 0
    /\ UNCHANGED <<bo_impl, bo_attempt, bo_jitter, schedVars, promptVars, mergeVars, connVars,
                   opVars, typeVars, catalogVars, advisorVars>>

\* The caller goes on to its next attempt.
next_attempt ==
    /\ bo_delay # -1 /\ bo_attempt < MaxAttempt
    /\ bo_attempt' = bo_attempt + 1
    /\ bo_delay' = -1
    /\ UNCHANGED <<bo_impl, bo_jitter, bo_slept, schedVars, promptVars, mergeVars, connVars,
                   opVars, typeVars, catalogVars, advisorVars>>

InitBackoff ==
    /\ SchedIdle /\ MergeIdle /\ ConnIdle /\ OpIdle /\ TypesIdle /\ CatalogIdle
    /\ AdvisorIdle /\ PromptIdle
    /\ bo_impl \in {"error_handling", "helpers"}
    /\ bo_attempt \in 0..MaxAttempt
    /\ bo_jitter \in BOOLEAN
    /\ bo_delay = -1 /\ bo_slept = 0

NextBackoff ==
    \/ exponential_backoff
    \/ next_attempt

SpecBackoff == InitBackoff /\ [][NextBackoff]_vars

\* min(60, 2^a) written out
ExpectedDelay(a) == IF 2 ^ a < 60 THEN 2 ^ a ELSE 60

\* C27: exponential_backoff(a) returns exactly min(60, 2^a) without jitter
\* and a value between 0.8 and 1.2 times min(60, 2^a) with jitter; the
\* delay before jitter does not decrease with a and never exceeds 60.
BackoffRange ==
    bo_delay # -1 =>
      /\ ~bo_jitter => bo_delay = 100 * ExpectedDelay(bo_attempt)
      /\ bo_jitter => /\ bo_delay >= 80 * ExpectedDelay(bo_attempt)
                      /\ bo_delay <= 120 * ExpectedDelay(bo_attempt)
      /\ capped_delay(bo_attempt) <= 60
      /\ \A b \in 0..bo_attempt : capped_delay(b) <= capped_delay(bo_attempt)

\* A call with an attempt number beyond the cap, jitter at its upper end.
BackoffRangeWitness ==
    /\ bo_jitter /\ 2 ^ bo_attempt > 60 /\ bo_delay = 120 * 60

----------------------------------------------------------------------------
\* Target readiness and error resolution for one table ("orders", schema
\* public), on one pair of connections

\* Columns the target may lack. insert_date is the column that
\* merge_and_update_data appends itself: no source table has it.
ColumnNames == {"region", "insert_date"}

NoTable == [exists |-> FALSE, columns |-> {}, unique |-> FALSE]
Targets == {NoTable} \cup
           {[exists |-> TRUE, columns |-> cs, unique |-> u] :
              cs \in SUBSET ColumnNames, u \in BOOLEAN}

\* Type of the source column region as SHOW COLUMNS reports it.
NoType == [base |-> "none", case |-> "lower", params |-> FALSE]
SourceTypes == {NoType,
                [base |-> "varchar", case |-> "lower", params |-> TRUE],
                [base |-> "int", case |-> "lower", params |-> TRUE]}

\* Column type in `ALTER TABLE ... ADD COLUMN "c" <type>`: the server takes
\* a parameter list with varchar, char and decimal (numeric), and has no
\* type named tinyint, datetime, double or blob.
PgAccepts(ty) ==
    IF ty.params THEN ty.base \in {"varchar", "char", "decimal"}
    ELSE ty.base \in {"int", "smallint", "bigint", "varchar", "char", "text",
                      "decimal", "float", "timestamp", "date", "time", "json"}

\* Error texts: column "c" does not exist; column "c" of relation "orders"
\* does not exist (what an INSERT naming a missing column gets); any other.
Messages == [col : ColumnNames, form : {"plain", "relation"}] \cup
            {[col |-> "region", form |-> "other"]}

\* re.search(r"column [\"'](.*?)[\"'] does not exist", ...): group 1 runs
\* from the first quote to the quote that stands before " does not exist".
extract_missing_column_from_error(msg) ==
    CASE msg.form = "plain" -> msg.col
      [] msg.form = "relation" /\ msg.col = "region" -> "region\" of relation \"orders"
      [] msg.form = "relation" /\ msg.col = "insert_date" ->
            "insert_date\" of relation \"orders"
      [] OTHER -> "None"

\* SHOW COLUMNS FROM `orders` LIKE 'c': fetchone() of the source.
show_columns_like(c, src) == IF c = "region" THEN src ELSE NoType

\* table_options as main builds it for the run, {table: {'unique_cols': ...,
\* 'columns': ...}}, or the entry of the table alone.
TableOptions(shape, ucols) ==
    IF shape = "run"
    THEN [orders |-> [unique_cols |-> ucols, columns |-> <<>>]]
    ELSE [unique_cols |-> ucols, columns |-> <<>>]

\* table_options.get('unique_cols'): None (no conflict target, as []) when
\* the dict has no such key.
options_get_unique_cols(opts) ==
    IF "unique_cols" \in DOMAIN opts THEN opts.unique_cols ELSE <<>>

\* What merge_and_update_data needs of the target.
AsSchema(tg) ==
    [exists |-> tg.exists, insert_date |-> "insert_date" \in tg.columns,
     unique |-> tg.unique]

\* What a handler did: the statement it got to, the column and the conflict
\* columns it used, the exception it raised ("none": it returned), whether
\* that exception is a transient fault injected by the environment, and the
\* target and the transaction it left.
Done(action, column, ucols, err, fault, tg, tx) ==
    [action |-> action, column |-> column, ucols |-> ucols, err |-> err,
     fault |-> fault, tg |-> tg, tx |-> tx]

\* Mutant: ADD COLUMN IF NOT EXISTS, an existing column is no error.
alter_error_if_not_exists(tg, tx, c, ty) ==
    IF tx = "aborted" THEN "in_failed_sql_transaction"
    ELSE IF ~tg.exists THEN "undefined_table"
    ELSE IF c \notin tg.columns /\ ~PgAccepts(ty) THEN "syntax_error"
    ELSE "none"

\* Error of ALTER TABLE "public"."orders" ADD COLUMN "c" ty ...
alter_error(tg, tx, c, ty) ==
    IF tx = "aborted" THEN "in_failed_sql_transaction"
    ELSE IF ~tg.exists THEN "undefined_table"
    ELSE IF c \in tg.columns THEN "duplicate_column"
    ELSE IF ~PgAccepts(ty) THEN "syntax_error"
    ELSE "none"

\* add_column_to_postgresql: execute and commit; on psycopg2.Error roll
\* back and re-raise. f is a fault of the connection ("none": no fault).
add_column_to_postgresql(tg, tx, c, ty, f) ==
    LET err == IF f = "operational_error" /\ tx # "aborted" THEN f
               ELSE alter_error(tg, tx, c, ty)
    IN  Done("alter", c, <<>>, err, err = "operational_error",
             IF err = "none" THEN [tg EXCEPT !.columns = @ \cup {c}] ELSE tg,
             "idle")

\* create_postgresql_table: CREATE TABLE IF NOT EXISTS with the columns of
\* the source, then commit; nothing is rolled back when the statement fails.
create_target_table(tg, tx, f, src) ==
    LET err == IF tx = "aborted" THEN "in_failed_sql_transaction"
               ELSE IF f = "operational_error" THEN f ELSE "none"
    IN  Done("create", "None", <<>>, err, err = "operational_error",
             IF err = "none" /\ ~tg.exists
             THEN [exists |-> TRUE, unique |-> FALSE,
                   columns |-> IF src # NoType THEN {"region"} ELSE {}]
             ELSE tg,
             IF err = "none" THEN "idle" ELSE "aborted")

\* Error of ALTER TABLE "public"."orders" ADD CONSTRAINT
\* orders_unique_constraint UNIQUE (...): the name is taken once the
\* constraint has been added.
unique_error(tg, tx) ==
    IF tx = "aborted" THEN "in_failed_sql_transaction"
    ELSE IF ~tg.exists THEN "undefined_table"
    ELSE IF tg.unique THEN "duplicate_table"
    ELSE "none"

\* add_unique_constraint: execute and commit; on psycopg2.Error roll back
\* and re-raise.
add_unique_constraint(tg, tx, ucols, f) ==
    LET err == IF f = "operational_error" /\ tx # "aborted" THEN f
               ELSE unique_error(tg, tx)
    IN  Done("constraint", "None", ucols, err, err = "operational_error",
             IF err = "none" THEN [tg EXCEPT !.unique = TRUE] ELSE tg,
             "idle")

\* ensure_pg_table_created(pg_conn, pg_table, mysql_columns, unique_cols):
\* check_table_exists; create the table when it is not there; then, `if
\* unique_cols`, add_unique_constraint.
ensure_pg_table_created(tg, tx, ucols, f, src) ==
    IF tx = "aborted"
    THEN Done("check", "None", ucols, "in_failed_sql_transaction", FALSE, tg, tx)
    ELSE LET c == IF tg.exists THEN Done("check", "None", ucols, "none", FALSE, tg, tx)
                  ELSE [create_target_table(tg, tx, f, src) EXCEPT !.ucols = ucols]
         IN  IF c.err # "none" \/ ucols = <<>> THEN c
             ELSE add_unique_constraint(c.tg, c.tx, ucols,
                                        IF tg.exists THEN f ELSE "none")

\* handle_missing_table: SHOW COLUMNS FROM the source, then
\* create_postgresql_table.
handle_missing_table(tg, tx, f, src) ==
    IF f = "mysql" THEN Done("show", "None", <<>>, "mysql", TRUE, tg, tx)
    ELSE create_target_table(tg, tx, f, src)

\* handle_missing_column: the column name is taken from the error text; the
\* source is asked for a column of that name; add_column_to_postgresql is
\* called with the type the source reports. Without a name, or without such
\* a source column, the function returns.
handle_missing_column(tg, tx, msg, f, src) ==
    LET missing_column == extract_missing_column_from_error(msg) IN
      IF missing_column = "None" THEN Done("none", "None", <<>>, "none", FALSE, tg, tx)
      ELSE IF f = "mysql" THEN Done("show", missing_column, <<>>, "mysql", TRUE, tg, tx)
      ELSE IF show_columns_like(missing_column, src) = NoType
      THEN Done("show", missing_column, <<>>, "none", FALSE, tg, tx)
      ELSE add_column_to_postgresql(tg, tx, missing_column,
                                    show_columns_like(missing_column, src), f)

\* Outcomes of merge_and_update_data on this target: no batch commits in
\* an aborted transaction.
MergeOutcomesOn(tg, tx, ucols) ==
    merge_outcomes(Connection, Connection, AsSchema(tg), ucols # <<>>)
      \ (IF tx = "aborted" THEN {"ok"} ELSE {})

\* merge_and_update_data with outcome o: its except clause rolls back.
merge_call(tg, tx, ucols, o) ==
    Done("merge", "None", ucols, IF MergeRaised(o) THEN o ELSE "none", FALSE, tg,
         IF o = "empty" THEN tx ELSE "idle")

\* handle_duplicate_key: merge with unique_cols=table_options.get('unique_cols')
handle_duplicate_key(tg, tx, opts, o) ==
    merge_call(tg, tx, options_get_unique_cols(opts), o)

\* Mutant: the except clause logs the error and returns.
except_swallow(err) == "none"

\* `except Exception as e: logging.error(...); raise`
except_reraise(err) == err

NoCall ==
    [kind |-> "none", choice |-> -1, msg |-> [col |-> "region", form |-> "other"],
     action |-> "none", column |-> "None", ucols |-> <<>>, action_err |-> "none",
     fault |-> FALSE, out |-> "returned", err |-> "none",
     before |-> NoTable]

\* What is kept of the call before the last: for ensure_pg_table_created
\* its unique_cols and whether it returned, for a resolution whether the
\* operator chose to skip the table.
Brief(c) ==
    [kind |-> c.kind, out |-> c.out, skip |-> c.choice = 3,
     ucols |-> IF c.kind = "ensure" THEN c.ucols ELSE <<>>]

Call(kind, choice, msg, r, raised, before) ==
    [kind |-> kind, choice |-> choice, msg |-> msg, action |-> r.action,
     column |-> r.column, ucols |-> r.ucols, action_err |-> r.err,
     fault |-> r.fault, out |-> IF raised = "none" THEN "returned" ELSE "raised",
     err |-> raised, before |-> before]

\* A caller makes the table ready: ensure_pg_table_created(...)
call_ensure_pg_table_created ==
    /\ \E ucols \in {<<>>, configured}, f \in {"none", "operational_error"} :
         LET r == ensure_pg_table_created(target, adv_txn, ucols, f, source_type) IN
           /\ last_call' = Call("ensure", -1, NoCall.msg, r, r.err, target)
           /\ target' = r.tg
           /\ adv_txn' = r.tx
    /\ prev_call' = Brief(last_call)
    /\ UNCHANGED <<source_type, configured, options_shape, schedVars, promptVars, mergeVars,
                   connVars, opVars, typeVars, catalogVars, backoffVars>>

\* resolve_error_based_on_choice(mysql_conn, pg_conn, table_name, schema_name,
\* error_message, error_type, table_options). user_choice is what
\* prompt_user_for_fix returns: None (here -1) or 0..4. Choice 4 runs
\* retry_migration_operation, which merges without conflict columns until
\* a merge returns or the last one raises: o is that last merge.
resolve_error_based_on_choice ==
    /\ \E user_choice \in -1..4, msg \in Messages,
          f \in {"none", "mysql", "operational_error"},
          o \in {"mysql", "empty", "pg", "ok"} :
         /\ user_choice # 1 => msg = NoCall.msg
         /\ user_choice \notin {0, 1} => f = "none"
         /\ user_choice = 2 =>
              o \in MergeOutcomesOn(target, adv_txn,
                      options_get_unique_cols(TableOptions(options_shape, configured)))
         /\ user_choice = 4 => o \in MergeOutcomesOn(target, adv_txn, <<>>)
         /\ user_choice \notin {2, 4} => o = "ok"
         /\ LET r == CASE user_choice = 0 ->
                             handle_missing_table(target, adv_txn, f, source_type)
                        [] user_choice = 1 ->
                             handle_missing_column(target, adv_txn, msg, f, source_type)
                        [] user_choice = 2 ->
                             handle_duplicate_key(target, adv_txn,
                                 TableOptions(options_shape, configured), o)
                        [] user_choice = 4 -> merge_call(target, adv_txn, <<>>, o)
                        [] OTHER ->
                             Done("none", "None", <<>>, "none", FALSE, target, adv_txn)
            IN /\ last_call' = Call("resolve", user_choice, msg, r,
                                     except_reraise(r.err), target)
               /\ target' = r.tg
               /\ adv_txn' = r.tx
    /\ prev_call' = Brief(last_call)
    /\ UNCHANGED <<source_type, configured, options_shape, schedVars, promptVars, mergeVars,
                   connVars, opVars, typeVars, catalogVars, backoffVars>>

InitAdvisor ==
    /\ SchedIdle /\ MergeIdle /\ ConnIdle /\ OpIdle /\ TypesIdle /\ CatalogIdle
    /\ BackoffIdle /\ PromptIdle
    /\ target \in Targets
    /\ source_type \in SourceTypes
    /\ configured \in {<<>>, <<"id">>}
    /\ options_shape \in {"run", "table"}
    /\ adv_txn = "idle"
    /\ last_call = NoCall
    /\ prev_call = Brief(NoCall)

NextAdvisor ==
    \/ call_ensure_pg_table_created
    \/ resolve_error_based_on_choice

SpecAdvisor == InitAdvisor /\ [][NextAdvisor]_vars

\* C21 (as claimed): a second ensure_pg_table_created with the same unique
\* columns, after a first one that returned, returns too (no fault of the
\* connection assumed) and leaves the target as it was.
EnsureReadyIdempotent ==
    ( /\ last_call.kind = "ensure" /\ prev_call.kind = "ensure"
      /\ prev_call.out = "returned" /\ last_call.ucols = prev_call.ucols
      /\ ~last_call.fault )
    => last_call.out = "returned" /\ target = last_call.before

\* C22: a failed ALTER of add_column_to_postgresql is never ignored. Adding
\* a column the table already has is a failure; every failure is raised as
\* it is, leaves the target as it was and the transaction rolled back; a
\* call that does not fail has added the column.
AddColumnFailureRaised ==
    last_call.action = "alter" =>
      /\ last_call.column \in last_call.before.columns => last_call.action_err # "none"
      /\ last_call.action_err # "none" =>
            /\ last_call.out = "raised" /\ last_call.err = last_call.action_err
            /\ target = last_call.before /\ adv_txn = "idle"
      /\ last_call.action_err = "none" =>
            last_call.out = "returned" /\ last_call.column \in target.columns

AddColumnFailureRaisedWitness ==
    /\ last_call.action = "alter" /\ last_call.action_err = "duplicate_column"
    /\ last_call.out = "raised" /\ "region" \in target.columns

\* C23: resolve_error_based_on_choice raises whatever the selected action
\* raised, and returns only when no action was selected (cancel, skip) or
\* the action returned.
ResolveNeverSuppresses ==
    last_call.kind = "resolve" =>
      /\ last_call.action_err # "none" =>
            last_call.out = "raised" /\ last_call.err = last_call.action_err
      /\ last_call.out = "returned" =>
            last_call.action_err = "none" /\ last_call.err = "none"
      /\ last_call.choice \in {-1, 3} => last_call.action = "none" /\ target = last_call.before

ResolveNeverSuppressesWitness ==
    /\ last_call.kind = "resolve" /\ last_call.choice = 4
    /\ last_call.out = "raised" /\ last_call.err = "pg"

\* C24 (as claimed): when the AddColumn remediation, applied to the text
\* column "c" does not exist, returns, the target has column c; and where
\* the source has a column c that the existing target lacks, the
\* remediation adds it (no fault of a connection assumed).
MissingColumnAdded ==
    (last_call.kind = "resolve" /\ last_call.choice = 1 /\ last_call.msg.form = "plain") =>
      /\ last_call.out = "returned" => last_call.msg.col \in target.columns
      /\ ( /\ show_columns_like(last_call.msg.col, source_type) # NoType
           /\ last_call.before.exists /\ last_call.msg.col \notin last_call.before.columns
           /\ ~last_call.fault /\ last_call.action_err # "in_failed_sql_transaction" )
         => last_call.msg.col \in target.columns

\* C25 (as claimed): the HandleDuplicateKey remediation runs the merge with
\* the unique columns configured for the table.
DuplicateKeyUsesConfigured ==
    (last_call.kind = "resolve" /\ last_call.choice = 2) =>
      last_call.action = "merge" /\ last_call.ucols = configured

\* C26 (as claimed): after the operator chose Skip for the table, no merge
\* is run for it any more.
SkipIsFinal ==
    prev_call.skip => last_call.action # "merge"

----------------------------------------------------------------------------
\* Re-attempt of a failed merge by retry_migration_operation

\* One re-attempt of `for attempt in range(retries)`: after the merge of the
\* table raised, merge_and_update_data is called again on open connections
\* with unique_cols=None, whatever the table's configured unique columns.
retry_merge_and_update_data ==
    /\ mpc = "returned" /\ run = 1
    /\ result[1].out \notin {"ok", "empty"}
    /\ run' = 2
    /\ mpc' = "select"
    /\ txn' = committed
    /\ unique_cols' = FALSE
    /\ pg_log' = <<>>
    /\ UNCHANGED <<rows, batch_size, schema, committed, i, batches,
                   result, snap, schedVars, auxVars>>

NextRetry ==
    \/ ensure_table_exists
    \/ merge_select
    \/ merge_and_update_data
    \/ retry_merge_and_update_data

SpecRetry == InitMerge /\ [][NextRetry]_vars

\* C31 (as claimed): on a target that was empty, after the merge failed at a
\* batch k > 0 and the re-attempt succeeded, the target holds every source
\* row as often as the source does, and no other row.
RetryKeepsRowsOnce ==
    ( /\ Len(result) = 2 /\ snap[1] = <<>>
      /\ result[1].out \notin {"ok", "empty"} /\ result[1].at > 0
      /\ result[2].out = "ok" )
    => /\ Len(committed) = Len(rows)
       /\ \A j \in 1..Len(rows) : Count(Proj(committed), rows[j]) = Count(rows, rows[j])

\* Entries of failed_tables naming table t when retry_failed_tables took its
\* copy, and the tables still listed.
Entries(t) == Count(retryList, t)
Listed(ft) == {ft[j] : j \in 1..Len(ft)}

\* C32: when retry_failed_tables has returned, every entry of the copy of
\* failed_tables was re-attempted exactly once (each re-attempt raised after
\* `Retries` merges, and none was skipped because an earlier one raised), and
\* failed_tables holds exactly the tables whose re-attempt raised.
EveryEntryReattemptedOnce ==
    (pc \in {"summary", "done"} /\ retryList # <<>>) =>
      /\ retryIdx = Len(retryList) + 1
      /\ \A t \in Tables : retried[t] = Retries * Entries(t)
      /\ Listed(failed_tables) = {t \in Tables : retried[t] > 0}
      /\ \A t \in Tables : Count(failed_tables, t) = Entries(t)

EveryEntryReattemptedOnceWitness ==
    /\ pc = "summary" /\ Len(retryList) >= 2
    /\ \E t, u \in Tables : t # u /\ Entries(t) > 0 /\ Entries(u) > 0
    /\ \A t \in Tables : retried[t] = Retries * Entries(t)

\* C36 (as claimed): a call of exponential_backoff, of either module, only
\* computes the delay: the calling task has not been suspended by it.
BackoffOnlyComputes ==
    bo_delay # -1 => bo_slept = 0

\* C38 (as claimed): for every source type string the mapper of table
\* creation and the mapper of schema comparison give the same target type.
MappersAgree ==
    (pg_type # "none" /\ helper_type # "none") => pg_type = helper_type

----------------------------------------------------------------------------
\* Properties of the operations merge_and_update_data performs on pg_conn

\* Positions of the execute operations in pg_log.
Executes == {p \in 1..Len(pg_log) : pg_log[p].op = "execute"}

\* C33: within one call the batches are executed in the order of the source
\* rows, each once: the j-th execute carries rows (j-1)*batch_size + 1 ..
\* j*batch_size, every execute is followed directly by its commit or by the
\* rollback of the except clause, and a rollback is the last operation of
\* the call (no later batch, no second attempt).
BatchesInOrderOnce ==
    /\ \A p \in 1..Len(pg_log) :
         IF p % 2 = 1
         THEN /\ pg_log[p].op = "execute"
              /\ pg_log[p].lo = ((p - 1) \div 2) * batch_size + 1
              /\ pg_log[p].hi = Min(((p + 1) \div 2) * batch_size, Len(rows))
              /\ p < Len(pg_log)
         ELSE pg_log[p].op \in {"commit", "rollback"}
    /\ \A p \in 1..Len(pg_log) :
         pg_log[p].op = "rollback" => p = Len(pg_log) /\ mpc # "batch"

BatchesInOrderOnceWitness ==
    /\ mpc = "returned" /\ batch_size = 2 /\ Len(pg_log) = 4
    /\ pg_log[2].op = "commit" /\ pg_log[3].lo = 3 /\ pg_log[4].op = "rollback"

\* C34 (as claimed): the statement of a batch carries ON CONFLICT (k) DO
\* UPDATE exactly when unique_cols is non-empty, and its SET list is exactly
\* the columns outside the conflict target: v and insert_date.
UpdateSetNonKey ==
    \A p \in Executes :
      /\ pg_log[p].stmt.on_conflict = unique_cols
      /\ unique_cols => /\ pg_log[p].stmt.conflict_cols = <<"k">>
                        /\ pg_log[p].stmt.update_cols = <<"v", "insert_date">>

\* C34 (amended): the statement of a batch carries ON CONFLICT (k) DO UPDATE
\* exactly when unique_cols is non-empty; its SET list is every column of the
\* statement, the key column k included, so every non-key column and
\* insert_date are set; a committed batch leaves each of its rows in the
\* target with the incoming values. Without unique_cols there is no clause.
UpdateSetAllColumns ==
    /\ \A p \in Executes :
         /\ pg_log[p].stmt.on_conflict = unique_cols
         /\ unique_cols => /\ pg_log[p].stmt.conflict_cols = <<"k">>
                           /\ pg_log[p].stmt.update_cols = <<"k", "v", "insert_date">>
         /\ ~unique_cols => /\ pg_log[p].stmt.conflict_cols = <<>>
                            /\ pg_log[p].stmt.update_cols = <<>>
    /\ (Len(pg_log) >= 2 /\ pg_log[Len(pg_log)].op = "commit" /\ unique_cols) =>
         \A j \in pg_log[Len(pg_log) - 1].lo .. pg_log[Len(pg_log) - 1].hi :
           \E x \in 1..Len(committed) :
             committed[x] = [k |-> rows[j].k, v |-> rows[j].v, insert_date |-> run]

\* An upsert batch was committed over a target row with the same key and
\* another value.
UpdateSetAllColumnsWitness ==
    /\ unique_cols /\ Len(pg_log) = 2 /\ pg_log[2].op = "commit"
    /\ pg_log[1].stmt.on_conflict
    /\ snap[1] # <<>> /\ rows[1].k = snap[1][1].k /\ rows[1].v # snap[1][1].v
    /\ HasRow(committed, rows[1]) /\ Len(committed) = 1

\* C35: a call that found no source rows has performed no operation on
\* pg_conn (no statement, no commit, no rollback) and the target holds the
\* rows it held when the call began.
EmptySourceLeavesTarget ==
    (mpc = "returned" /\ result[run].out = "empty") =>
      /\ pg_log = <<>>
      /\ committed = snap[run] /\ txn = committed

EmptySourceLeavesTargetWitness ==
    /\ mpc = "returned" /\ result[run].out = "empty"
    /\ rows = <<>> /\ committed # <<>> /\ pg_log = <<>>

----------------------------------------------------------------------------
\* Prompt with timeout: ask_default_db and prompt_user_with_timeout

\* Longest timeout, seconds a prompt is watched, prompts of one question.
MaxTimeout == 3
MaxClock == 5
MaxPrompts == 3

\* What the user may type, stripped and lower-cased; "maybe" is an invalid
\* answer, given at most MaxPrompts - 1 times.
Inputs == {"yes", "no", "", "maybe"}
InputsAt(n) == IF n < MaxPrompts THEN Inputs ELSE Inputs \ {"maybe"}

\* `with prompt_user_with_timeout(...)`: timer = threading.Timer(timeout,
\* timeout_handler); timer.start(); then the main thread enters input().
prompt_user_with_timeout ==
    /\ pr_pc = "call" /\ pr_prompts < MaxPrompts
    /\ pr_pc' = "input"
    /\ pr_timer' = "running"
    /\ pr_clock' = 0
    /\ pr_prompts' = pr_prompts + 1
    /\ UNCHANGED <<pr_timeout, pr_response, pr_answer, schedVars, mergeVars, connVars,
                   opVars, typeVars, catalogVars, backoffVars, advisorVars>>

\* A second passes while the main thread is inside input(); a running timer
\* fires when its interval is over.
second_passes ==
    /\ pr_pc = "input" /\ pr_clock < MaxClock
    /\ ~(pr_timer = "running" /\ pr_clock >= pr_timeout)
    /\ pr_clock' = pr_clock + 1
    /\ UNCHANGED <<pr_pc, pr_timeout, pr_timer, pr_response, pr_prompts, pr_answer,
                   schedVars, mergeVars, connVars, opVars, typeVars, catalogVars,
                   backoffVars, advisorVars>>

\* The timer thread calls timeout_handler, which raises TimeoutExpired in
\* the timer thread: the thread ends with that exception, the main thread
\* stays inside input().
timeout_handler ==
    /\ pr_timer = "running" /\ pr_clock >= pr_timeout
    /\ pr_timer' = "raised"
    /\ UNCHANGED <<pr_pc, pr_timeout, pr_clock, pr_response, pr_prompts, pr_answer,
                   schedVars, mergeVars, connVars, opVars, typeVars, catalogVars,
                   backoffVars, advisorVars>>

\* The user ends a line: response = input(prompt); timer.cancel();
\* yield response. (`except TimeoutExpired: yield None` needs the exception
\* in the main thread, where nothing raises it.)
input_returns ==
    /\ pr_pc = "input"
    /\ \E text \in InputsAt(pr_prompts) : pr_response' = text
    /\ pr_timer' = IF pr_timer = "running" THEN "cancelled" ELSE pr_timer
    /\ pr_pc' = "body"
    /\ UNCHANGED <<pr_timeout, pr_clock, pr_prompts, pr_answer, schedVars, mergeVars,
                   connVars, opVars, typeVars, catalogVars, backoffVars, advisorVars>>

\* Body of the with statement in ask_default_db: an empty response or None
\* counts as 'yes'; 'yes' returns True, 'no' returns False, anything else
\* prompts again.
ask_default_db ==
    /\ pr_pc = "body"
    /\ LET response == IF pr_response \in {"", "None"} THEN "yes" ELSE pr_response
       IN IF response = "yes"
          THEN pr_answer' = TRUE /\ pr_pc' = "returned"
          ELSE IF response = "no"
          THEN pr_answer' = FALSE /\ pr_pc' = "returned"
          ELSE pr_pc' = "call" /\ UNCHANGED pr_answer
    /\ UNCHANGED <<pr_timeout, pr_clock, pr_timer, pr_response, pr_prompts, schedVars,
                   mergeVars, connVars, opVars, typeVars, catalogVars, backoffVars,
                   advisorVars>>

InitPrompt ==
    /\ SchedIdle /\ MergeIdle /\ ConnIdle /\ OpIdle /\ TypesIdle /\ CatalogIdle
    /\ BackoffIdle /\ AdvisorIdle
    /\ pr_pc = "call"
    /\ pr_timeout \in 1..MaxTimeout
    /\ pr_clock = 0 /\ pr_timer = "none"
    /\ pr_response = "unset" /\ pr_prompts = 0 /\ pr_answer = "unset"

NextPrompt ==
    \/ prompt_user_with_timeout
    \/ second_passes
    \/ timeout_handler
    \/ input_returns
    \/ ask_default_db

\* Time passes and both threads run; nothing makes the user type.
SpecPrompt ==
    /\ InitPrompt /\ [][NextPrompt]_vars
    /\ WF_vars(prompt_user_with_timeout) /\ WF_vars(second_passes)
    /\ WF_vars(timeout_handler) /\ WF_vars(ask_default_db)

\* C37 (as claimed): once the timer of a prompt has expired, the wait for
\* input ends and None is yielded, whether or not the user ever types.
TimeoutYieldsNone ==
    [](pr_timer = "raised" => <>(pr_pc # "input" /\ pr_response = "None"))

============================================================================

